---- MODULE Spec2Model ----
(***************************************************************************)
(* Model of the crawler of phi-ra/kg-crawler: PageScraper (src/src/        *)
(* scraper.py) driven by crawly_go_crawl (src/crawly.py), and              *)
(* FedlexScraper._scrap_feldex of the same file.                           *)
(*                                                                         *)
(* Strings are sequences of tokens: "/" and "." are tokens of their own,   *)
(* every other token is a run of characters holding neither.  Python's     *)
(* `a in b` on strings is the contiguous-subsequence test IsSubstr, `+` is *)
(* \o.  A Python list is a sequence; list(set(x)) is a duplicate-free      *)
(* enumeration of the elements of x with ANY element first.                *)
(***************************************************************************)
EXTENDS Integers, Sequences, FiniteSets, TLC

VARIABLES
    \* ---- PageScraper attributes
    link_dict,          \* self.link_dict : list of every link discovered
    todo_links,         \* self.todo_links: list of links still to crawl
    has_todo_links,     \* FALSE while the attribute self.todo_links does not exist
    done_links,         \* self.done_links: list of links popped
    knowledge_base,     \* self.knowledge_base: url -> entry
    legalfile_iterator, \* self.legalfile_iterator
    \* ---- arguments of the constructor and of crawl_page
    predefined_done,    \* len(predefined_done_links) given to __init__
    retries,            \* crawl_page(retries=...)
    write,              \* crawl_page(write=...)
    filter_function,    \* "None" or "string_filter" (kwargs of crawl_page)
    \* ---- control state of crawl_page / _process_page
    pc,                 \* position in crawl_page
    site,               \* call site of the running _process_page: initial/try/retry
    current_url,        \* crawl_page: current_url
    current_try,        \* crawl_page: current_try
    url,                \* _process_page: url (the pull_url)
    page,               \* _process_page: the response of requests.get(url)
    file_type,          \* _process_page: file_type
    file_name,          \* _process_page: file_name
    linked_docs,        \* _process_page: linked_docs
    legal_status,       \* _process_html: legal_status
    as_pickle,          \* _process_page: as_pickle
    \* ---- environment
    web,                \* the pages served so far: pull url -> page (a static web)
    dirs,               \* sub-directories of write_dir
    files,              \* files written below write_dir: path -> fingerprint
    disk_kb,            \* the file _overview/knowledge_base.pkl
    disk_scraper,       \* the file _overview/scraper_class.pkl
    log,                \* the urls reported through logger.error, in order
    faults,             \* the transport and storage failures that occurred so far
    sessions,           \* the browser sessions opened by isolate_legal_xml and not closed
    \* ---- FedlexScraper
    full_set,           \* self.full_set: the catalog, a list of entries
    crawled_legal_knowledge, \* self.crawled_legal_knowledge: key -> entry
    id_counter,         \* _scrap_feldex: id_counter
    reset_counter,      \* _scrap_feldex: reset_counter
    entry_index         \* _scrap_feldex: entries of full_set the for loop has taken

vars == <<link_dict, todo_links, has_todo_links, done_links, knowledge_base,
          legalfile_iterator, predefined_done, retries, write, filter_function,
          pc, site, current_url, current_try, url, page, file_type, file_name,
          linked_docs, legal_status, as_pickle, web, dirs, files, disk_kb,
          disk_scraper, log, faults, sessions, full_set, crawled_legal_knowledge,
          id_counter, reset_counter, entry_index>>

---------------------------------------------------------------------------
(* Python values *)

\* Python: s in t, for strings s and t
IsSubstr(s, t) == \E i \in 0..(Len(t) - Len(s)) : SubSeq(t, i + 1, i + Len(s)) = s

\* Python: set(l)
ToSet(l) == {l[i] : i \in DOMAIN l}

RECURSIVE SomeOrder(_)
\* one enumeration of a set
SomeOrder(S) ==
    IF S = {} THEN <<>>
    ELSE LET x == CHOOSE y \in S : TRUE IN <<x>> \o SomeOrder(S \ {x})

\* a list() that enumerates every element twice
ListOfTwice(S) == SomeOrder(S) \o SomeOrder(S)

\* a list() that drops every element
ListOfNothing(S) == <<>>

\* Python: list(S) for a set S whose order is read nowhere (link_dict is only
\* measured, tested for emptiness, turned into a set and appended to)
ListOf(S) == SomeOrder(S)

\* Python: list(S) for a set S of which only the first element is read before the
\* list is rebuilt from a set again (todo_links, read by next(iter(...))): the
\* interpreter may put any element first
Enumerations(S) == {<<x>> \o SomeOrder(S \ {x}) : x \in S} \cup
                   (IF S = {} THEN {<<>>} ELSE {})

\* a Python list and a Python str stored in the same slot are kept apart
PyList(l) == [py |-> "list", val |-> l]
PyStr(s)  == [py |-> "str", val |-> s]
None      == [py |-> "None"]

\* a pickle file: absent, or holding the pickled value
NoFile    == [present |-> FALSE, content |-> <<>>]
Pickle(v) == [present |-> TRUE, content |-> v]

---------------------------------------------------------------------------
(* The addresses of the model *)

domain_url  == <<"https:", "/", "/", "www", ".", "astra", ".", "admin", ".", "ch">>
HomeRel     == <<"/", "astra", "/", "de", "/", "home", ".", "html">>
initial_url == domain_url \o HomeRel
PageA       == <<"/", "astra", "/", "de", "/", "a", ".", "html">>
DocPdf      == <<"/", "astra", "/", "de", "/", "doc", ".", "pdf">>
LawPage     == <<"https:", "/", "/", "www", ".", "admin", ".", "ch", "/", "opc", "/",
                 "classified-compilation", "/", "index", ".", "html">>
External    == <<"https:", "/", "/", "ext", ".", "example", "/", "x", ".", "html">>
XmlLink     == <<"https:", "/", "/", "www", ".", "fedlex", ".", "admin", ".", "ch", "/",
                 "filestore", "/", "law", ".", "xml">>
\* a second document with the last path segment of DocPdf
DocPdfCopy  == <<"/", "astra", "/", "de", "/", "sub", "/", "doc", ".", "pdf">>
\* an address whose last path segment is empty
DirLink     == <<"/", "astra", "/", "de", "/">>
write_dir   == <<"crawled_data">>

Hrefs == {HomeRel, PageA, DocPdf, LawPage, External}

\* the hyperlink lists the markup page at an address can hold, in document order
LinkLists(u) ==
    IF u = initial_url
    THEN { <<>>, <<PageA, DocPdf, External>>, <<HomeRel, LawPage, LawPage>> }
    ELSE IF u = LawPage THEN { <<>> }
    ELSE { <<>>, <<HomeRel, LawPage, LawPage>> }

\* the addresses that may serve the script-requirement notice
MayBeGated(u) == u \in {initial_url, LawPage}

\* a response: the hrefs of its <a href> elements, whether its text holds the
\* script-requirement phrase, and the address whose content it is
BinaryPage(u) == [doc |-> u, gated |-> FALSE, hrefs |-> <<>>]
HtmlPages(u)  == (IF MayBeGated(u) THEN {[doc |-> u, gated |-> TRUE, hrefs |-> <<>>]}
                  ELSE {})
                 \cup {[doc |-> u, gated |-> FALSE, hrefs |-> l] : l \in LinkLists(u)}
NoPage        == [doc |-> <<>>, gated |-> FALSE, hrefs |-> <<>>]

---------------------------------------------------------------------------
(* src/src/utils/schemas.py *)

fedro_filetypes == <<"pdf", "html", "legal_xml", "xml", "zip", "xlsx", "xls", "docx",
                     "doc", "dotx", "pptx", "ppt", "jpg", "png", "dxf", "dwg", "mpg">>

fedro_filesplit ==
    [t \in ToSet(fedro_filetypes) \cup {"else"} |->
        CASE t = "pdf" -> "pdf"
          [] t = "html" -> "html"
          [] t = "legal_xml" -> "legal"
          [] t = "zip" -> "zip"
          [] t \in {"xls", "xlsx"} -> "excel"
          [] t \in {"doc", "docx", "dotx"} -> "word"
          [] t \in {"pptx", "ppt"} -> "powerpoint"
          [] t \in {"jpg", "png"} -> "images"
          [] t \in {"dxf", "dwg"} -> "cad"
          [] OTHER -> "else"]

---------------------------------------------------------------------------
(* src/src/scraper.py: pure helpers *)

\* urllib.parse.unquote, token by token
UnquoteToken(t) == CASE t = "a%20b" -> "a b" [] OTHER -> t
Unquote(s) == [i \in DOMAIN s |-> UnquoteToken(s[i])]

\* str.lower, token by token
LowerToken(t) == CASE t = "PDF" -> "pdf" [] t = "HTML" -> "html" [] OTHER -> t
Lower(s) == [i \in DOMAIN s |-> LowerToken(s[i])]

\* the text matched by re.search(r'([^X]+$)', s): the longest suffix of s without
\* token X; <<>> stands for "no match" (re.search returns None)
SuffixWithout(s, X) ==
    LET cut == {i \in DOMAIN s : s[i] = X}
        last == IF cut = {} THEN 0 ELSE CHOOSE i \in cut : \A j \in cut : j <= i
    IN  SubSeq(s, last + 1, Len(s))

\* `key in tok` for a token: the known kind keys that are substrings of a token
TokenHolds(tok, key) ==
    \/ tok = key
    \/ <<tok, key>> \in { <<"xlsx?v=2", "xlsx">>, <<"xlsx?v=2", "xls">>,
                          <<"xlsx", "xls">>, <<"docx", "doc">>, <<"pptx", "ppt">>,
                          <<"legal_xml", "xml">>, <<"html?x", "html">>,
                          <<"docs", "doc">> }

\* _get_filenames raises TypeError (subscript of None) when a regex finds nothing
GetFilenamesRaises(u) ==
    LET name == SuffixWithout(Unquote(u), "/")
    IN  name = <<>> \/ SuffixWithout(Lower(name), ".") = <<>>

\* _get_filenames: <<file_type, file_name>>
GetFilenames(u) ==
    LET name == SuffixWithout(Unquote(u), "/")
        raw  == SuffixWithout(Lower(name), ".")
        hits == {i \in DOMAIN fedro_filetypes :
                    \E j \in DOMAIN raw : TokenHolds(raw[j], fedro_filetypes[i])}
    IN  IF \E i \in DOMAIN fedro_filetypes : raw = <<fedro_filetypes[i]>>
        THEN <<raw[1], name>>
        ELSE IF hits # {}
             THEN <<fedro_filetypes[CHOOSE i \in hits : \A j \in hits : i <= j], name>>
             ELSE <<"else", name>>

whitelist == << <<"classified-compilation">>, <<"fedlex">>, <<"astra", "/", "de">> >>

\* a _verify_linkparent that lets every link pass
VerifyLinkparentAll(link) == TRUE

\* _verify_linkparent
VerifyLinkparent(link) == \E i \in DOMAIN whitelist : IsSubstr(whitelist[i], link)

\* crawl_page, lines 160-163: the address that is fetched for a frontier link
PullUrl(current) ==
    IF /\ ~IsSubstr(domain_url, current)
       /\ ~IsSubstr(<<"classified-compilation">>, current)
       /\ ~IsSubstr(<<"fedlex">>, current)
    THEN domain_url \o current
    ELSE current

\* crawly.py: --filter_string, the alternatives of 'astra/de|classified-compilation|fedlex'
filter_string == << <<"astra", "/", "de">>, <<"classified-compilation">>, <<"fedlex">> >>

\* adminlink.string_filter: bool(re.search(search_string, url))
StringFilter(u, search_string) ==
    \E i \in DOMAIN search_string : IsSubstr(search_string[i], u)

\* an isolate_simple that returns every accepted href once
IsolateSimpleOnce(hrefs, ff) ==
    SomeOrder(ToSet(IF ff = "None" THEN hrefs
                    ELSE SelectSeq(hrefs, LAMBDA h : StringFilter(h, filter_string))))

\* adminlink.isolate_simple
IsolateSimple(hrefs, ff) ==
    IF ff = "None" THEN hrefs
    ELSE SelectSeq(hrefs, LAMBDA h : StringFilter(h, filter_string))

\* _gather_links, line 261: set_new - set_existing
CrawlNew(new_list, existing) == ToSet(new_list) \ ToSet(existing)

\* _gather_links, lines 262-263: set(crawl_new + todo_links) - set(done_links)
GatherTodo(crawl_new, todo, done) == ToSet(crawl_new \o todo) \ ToSet(done)

\* a _pop_item that forgets to take the done links out of todo_links
PopTodoKeepsDone(todo, done) == ToSet(todo)

\* _pop_item, line 516: set(todo_links) - set(done_links)
PopTodo(todo, done) == ToSet(todo) \ ToSet(done)

\* _pop_item, line 507: writing_steps
writing_steps == 400

\* _hash_file: an md5 digest, kept as the content it was computed from
HashFile(obj) == [md5 |-> obj]

\* _store_object, lines 440-441
WritePath(ftype, fname) == write_dir \o <<"/", fedro_filesplit[ftype], "/">> \o fname

RECURSIVE SubHtmlPkl(_)
\* _store_object, lines 455-456: re.sub(r'(\.html)', '.pkl', write_path)
SubHtmlPkl(s) ==
    IF Len(s) < 2 THEN s
    ELSE IF s[1] = "." /\ s[2] = "html"
         THEN <<".", "pkl">> \o SubHtmlPkl(SubSeq(s, 3, Len(s)))
         ELSE <<s[1]>> \o SubHtmlPkl(Tail(s))

\* _store_object, lines 450-458: the path of the file that is written
WrittenPath(path, pickled) ==
    IF ~pickled THEN path
    ELSE IF IsSubstr(<<".", "html">>, path) THEN SubHtmlPkl(path)
         ELSE path \o <<".", "pkl">>

\* _verify_filestructure, lines 477 and 484: set(self.write_split.values())
Buckets == {fedro_filesplit[t] : t \in DOMAIN fedro_filesplit}

\* a comparison of sets that holds when the set is empty
SetIsEmpty(S) == S = {}

\* _verify_filestructure, line 480: <set> == {} compares a set with an empty
\* dict, which Python never finds equal
SetEqEmptyDict(S) == FALSE

\* _verify_filestructure: the entries of write_dir after the check
VerifyFilestructure(d) ==
    IF Cardinality(d) = 0 THEN Buckets \cup {"_overview"}
    ELSE IF SetEqEmptyDict(Buckets \ d) THEN d
    ELSE d \cup Buckets \cup {"_overview"}

---------------------------------------------------------------------------
(* The arguments a crawl is started with *)

MaxRetries == 2

\* the transport and storage failures one run of the model suffers at most
MaxFaults == 2

\* the arguments predefined_links and predefined_done_links of __init__ (None:
\* not given); the long list is one entry short of the checkpoint cadence
Predefined ==
    { <<None, None>>,
      <<PyList(<<initial_url>>), None>>,
      <<None, PyList(<<PageA>>)>>,
      <<PyList(<<DirLink>>), None>>,
      <<PyList(<<DocPdf, DocPdfCopy>>), None>>,
      <<PyList(<<LawPage, DocPdf>>), PyList([i \in 1..(writing_steps - 1) |-> External])>>,
      <<PyList(<<External>>), PyList([i \in 1..(writing_steps - 1) |-> External])>> }

Init ==
    /\ \E pre \in Predefined :
          /\ link_dict = IF pre[1] = None THEN <<>> ELSE pre[1].val
          /\ todo_links = IF pre[1] = None THEN <<>> ELSE pre[1].val
          /\ has_todo_links = (pre[1] # None)
          /\ done_links = IF pre[2] = None THEN <<>> ELSE pre[2].val
          /\ predefined_done = IF pre[2] = None THEN 0 ELSE Len(pre[2].val)
    /\ knowledge_base = <<>>
    /\ legalfile_iterator = 0
    /\ retries \in 0..MaxRetries
    /\ write \in BOOLEAN
    /\ filter_function \in {"None", "string_filter"}
    /\ pc = "start"
    /\ site = "none"
    /\ current_url = <<>>
    /\ current_try = 0
    /\ url = <<>>
    /\ page = NoPage
    /\ file_type = "none"
    /\ file_name = <<>>
    /\ linked_docs = PyList(<<>>)
    /\ legal_status = "none"
    /\ as_pickle = FALSE
    /\ web = <<>>
    /\ dirs = {}
    /\ files = <<>>
    /\ disk_kb = NoFile
    /\ disk_scraper = NoFile
    /\ log = <<>>
    /\ faults = 0
    /\ sessions = 0
    /\ full_set = <<>>
    /\ crawled_legal_knowledge = <<>>
    /\ id_counter = 0
    /\ reset_counter = 0
    /\ entry_index = 0

frontier == <<link_dict, todo_links, has_todo_links, done_links>>
config   == <<predefined_done, retries, write, filter_function>>
locals   == <<url, page, file_type, file_name, linked_docs, legal_status, as_pickle>>
disk     == <<dirs, files, disk_kb, disk_scraper>>
env      == <<web, disk, log, faults>>
fedlex   == <<full_set, crawled_legal_knowledge, id_counter, reset_counter, entry_index>>

\* the locals of _process_page once it has returned or raised
LocalsGone ==
    /\ url' = <<>>
    /\ page' = NoPage
    /\ file_type' = "none"
    /\ file_name' = <<>>
    /\ linked_docs' = PyList(<<>>)
    /\ legal_status' = "none"
    /\ as_pickle' = FALSE

\* where control goes when _process_page raises: out of crawl_page from the
\* unguarded call sites (lines 148 and 174), into the except clause from line 166
Raised ==
    /\ pc' = IF site = "try" THEN "except" ELSE "raised"
    /\ site' = "none"
    /\ LocalsGone

\* a return of _process_page that goes back to the loop head, past _pop_item
ReturnedSkipsPop ==
    /\ pc' = "loop"
    /\ site' = "none"
    /\ LocalsGone

\* where control goes when _process_page returns
Returned ==
    /\ pc' = IF site = "initial" THEN "loop" ELSE "pop"
    /\ site' = "none"
    /\ LocalsGone

---------------------------------------------------------------------------
(* crawl_page *)

\* lines 143-151: the file-structure check and the branch on an empty link_dict
CrawlStart ==
    /\ pc = "start"
    /\ dirs' = IF write THEN VerifyFilestructure(dirs) ELSE dirs
    /\ IF Len(link_dict) = 0
       THEN /\ pc' = "fetch"
            /\ site' = "initial"
            /\ url' = initial_url
       ELSE /\ pc' = "loop"
            /\ UNCHANGED <<site, url>>
    /\ UNCHANGED <<frontier, knowledge_base, legalfile_iterator, config, fedlex,
                   sessions, current_url, current_try, page, file_type, file_name,
                   linked_docs, legal_status, as_pickle, web, files, disk_kb,
                   disk_scraper, log, faults>>

\* line 153 with self.todo_links never assigned: AttributeError
LoopNoAttribute ==
    /\ pc = "loop"
    /\ ~has_todo_links
    /\ pc' = "raised"
    /\ UNCHANGED <<frontier, knowledge_base, legalfile_iterator, config, fedlex,
                   sessions, site, current_url, current_try, locals, web, disk, log,
                   faults>>

\* line 153: the loop condition is false, crawl_page returns
LoopExit ==
    /\ pc = "loop"
    /\ has_todo_links
    /\ Len(todo_links) = 0
    /\ pc' = "returned"
    /\ UNCHANGED <<frontier, knowledge_base, legalfile_iterator, config, fedlex,
                   sessions, site, current_url, current_try, locals, web, disk, log,
                   faults>>

\* lines 153-166: the next link is taken and, if whitelisted, its processing starts
LoopNext ==
    /\ pc = "loop"
    /\ has_todo_links
    /\ Len(todo_links) > 0
    /\ current_try' = 0
    /\ current_url' = todo_links[1]
    /\ IF VerifyLinkparent(todo_links[1])
       THEN /\ url' = PullUrl(todo_links[1])
            /\ site' = "try"
            /\ pc' = "fetch"
       ELSE /\ pc' = "pop"
            /\ UNCHANGED <<url, site>>
    /\ UNCHANGED <<frontier, knowledge_base, legalfile_iterator, config, fedlex,
                   sessions, page, file_type, file_name, linked_docs, legal_status,
                   as_pickle, web, disk, log, faults>>

\* lines 170-177: the except clause
Except ==
    /\ pc = "except"
    /\ current_try' = current_try + 1
    /\ IF current_try + 1 >= retries
       THEN /\ pc' = "fetch"
            /\ site' = "retry"
            /\ url' = PullUrl(current_url)
       ELSE /\ pc' = "pop"
            /\ UNCHANGED <<site, url>>
    /\ UNCHANGED <<frontier, knowledge_base, legalfile_iterator, config, fedlex,
                   sessions, current_url, page, file_type, file_name, linked_docs,
                   legal_status, as_pickle, web, disk, log, faults>>

---------------------------------------------------------------------------
(* _process_page *)

\* line 206: requests.get(url) raises a transport error
FetchFails ==
    /\ pc = "fetch"
    /\ faults < MaxFaults
    /\ faults' = faults + 1
    /\ Raised
    /\ UNCHANGED <<frontier, knowledge_base, legalfile_iterator, config, fedlex,
                   sessions, current_url, current_try, web, disk, log>>

\* lines 205-216: the response arrives and the address is classified
FetchOk ==
    /\ pc = "fetch"
    /\ IF GetFilenamesRaises(url)
       THEN /\ Raised
            /\ UNCHANGED web
       ELSE LET ft == GetFilenames(url)[1]
                fn == GetFilenames(url)[2]
            IN  /\ \E p \in (IF url \in DOMAIN web THEN {web[url]}
                             ELSE IF ft = "html" THEN HtmlPages(url)
                             ELSE {BinaryPage(url)}) :
                      /\ page' = p
                      /\ web' = (url :> p) @@ web
                /\ file_type' = ft
                /\ file_name' = fn
                /\ as_pickle' = (ft = "html")
                /\ linked_docs' = PyList(<<>>)
                /\ pc' = IF ft = "html" THEN "html" ELSE "store"
                /\ UNCHANGED <<url, site, legal_status>>
    /\ UNCHANGED <<frontier, knowledge_base, legalfile_iterator, config, fedlex,
                   sessions, current_url, current_try, disk, log, faults>>

\* _process_html, lines 353-355, with _gather_links: the page is not gated
ProcessHtmlPlain ==
    /\ pc = "html"
    /\ ~page.gated
    /\ LET new_list == IsolateSimple(page.hrefs, filter_function)
       IN  /\ IF Len(link_dict) > 0
              THEN LET crawl_new == ListOf(CrawlNew(new_list, link_dict))
                   IN  /\ todo_links' \in
                              Enumerations(GatherTodo(crawl_new, todo_links, done_links))
                       /\ link_dict' = link_dict \o crawl_new
              ELSE /\ link_dict' = new_list
                   /\ todo_links' = new_list
           /\ has_todo_links' = TRUE
           /\ linked_docs' = PyList(new_list)
    /\ file_type' = "html"
    /\ pc' = "store"
    /\ UNCHANGED <<done_links, knowledge_base, legalfile_iterator, config, fedlex,
                   sessions, site, current_url, current_try, url, page, file_name,
                   legal_status, as_pickle, web, disk, log, faults>>

\* a resolution after which the resolved document is added to link_dict
AfterResolutionEnqueues(status, current_uri) ==
    /\ legal_status' = status
    /\ file_name' = <<"crawled_legaldoc_" \o ToString(legalfile_iterator)>>
    /\ legalfile_iterator' = legalfile_iterator + 1
    /\ linked_docs' = IF current_uri # None THEN current_uri ELSE PyList(<<>>)
    /\ file_type' = IF status = "in_force" THEN "legal_xml" ELSE "else"
    /\ pc' = "store"
    /\ link_dict' = Append(link_dict, url)
    /\ UNCHANGED <<todo_links, has_todo_links, done_links, knowledge_base, config,
                   fedlex, site, current_url, current_try, url, as_pickle, web, disk,
                   faults>>

\* _process_html, lines 342-352: what follows the guarded resolution
AfterResolution(status, current_uri) ==
    /\ legal_status' = status
    /\ file_name' = <<"crawled_legaldoc_" \o ToString(legalfile_iterator)>>
    /\ legalfile_iterator' = legalfile_iterator + 1
    /\ linked_docs' = IF current_uri # None THEN current_uri ELSE PyList(<<>>)
    /\ file_type' = IF status = "in_force" THEN "legal_xml" ELSE "else"
    /\ pc' = "store"
    /\ UNCHANGED <<frontier, knowledge_base, config, fedlex, site, current_url,
                   current_try, url, as_pickle, web, disk, faults>>

LegalStatus == {"in_force", "not_in_force", "unknown"}

\* an isolate_legal_xml that returns the download link for every status
NewPageAlwaysXml(u, status) == XmlLink

\* helpers.isolate_legal_xml: xml_link when in force, the address itself otherwise
NewPage(u, status) == IF status = "in_force" THEN XmlLink ELSE u

\* helpers.isolate_legal_xml, lines 132-151: the session opened by Chrome() is
\* closed on the in_force path only
SessionsAfter(status) == IF status = "in_force" THEN sessions ELSE sessions + 1

\* lines 334-340: isolate_legal_xml raises; current_uri is still None.  Chrome()
\* raises and no session was opened, or driver.get, detect_inforce or
\* get_xml_link raises with the session open
EscalateRenderRaises ==
    /\ pc = "html"
    /\ page.gated
    /\ log' = Append(log, url)
    /\ \E opened \in BOOLEAN : sessions' = IF opened THEN sessions + 1 ELSE sessions
    /\ UNCHANGED page
    /\ AfterResolution("else", None)

\* lines 334-340: isolate_legal_xml returns, then requests.get(new_page) or the
\* xml parse raises; current_uri is assigned already, soup is still the gate page
EscalateFetchRaises ==
    /\ pc = "html"
    /\ page.gated
    /\ log' = Append(log, url)
    /\ \E st \in LegalStatus : sessions' = SessionsAfter(st)
    /\ UNCHANGED page
    /\ AfterResolution("else", PyStr(url))

\* lines 334-337: the resolution succeeds, soup is the parsed resolved document
EscalateOk ==
    /\ pc = "html"
    /\ page.gated
    /\ \E st \in LegalStatus :
          /\ page' = [doc |-> NewPage(url, st), gated |-> FALSE, hrefs |-> <<>>]
          /\ sessions' = SessionsAfter(st)
          /\ UNCHANGED log
          /\ AfterResolution(st, PyStr(url))

\* _store_object, lines 443-447, reached from _process_page lines 218-226
Entry(path, hash, neighbours) ==
    [storage_location |-> path, file_hash |-> hash, neighbour_list |-> neighbours]

\* a _store_object that returns without recording the entry
StoreForgets ==
    /\ pc = "store"
    /\ Returned
    /\ UNCHANGED <<frontier, knowledge_base, legalfile_iterator, config, fedlex,
                   sessions, current_url, current_try, web, disk, log, faults>>

\* lines 218-226 and _store_object: the entry is recorded and, when writing, the
\* resource is written; _process_page returns
StoreOk ==
    /\ pc = "store"
    /\ LET path == WritePath(file_type, file_name)
           hash == HashFile(page)
       IN  /\ knowledge_base' = (url :> Entry(path, hash, linked_docs)) @@ knowledge_base
           /\ files' = IF write THEN (WrittenPath(path, as_pickle) :> hash) @@ files
                       ELSE files
    /\ Returned
    /\ UNCHANGED <<frontier, legalfile_iterator, config, fedlex, sessions, current_url,
                   current_try, web, dirs, disk_kb, disk_scraper, log, faults>>

\* _store_object, lines 449-460: the entry is recorded, then open() or
\* pickle.dump raises
StoreWriteFails ==
    /\ pc = "store"
    /\ write
    /\ LET path == WritePath(file_type, file_name)
       IN  knowledge_base' = (url :> Entry(path, HashFile(page), linked_docs))
                                 @@ knowledge_base
    /\ faults < MaxFaults
    /\ faults' = faults + 1
    /\ Raised
    /\ UNCHANGED <<frontier, legalfile_iterator, config, fedlex, sessions, current_url,
                   current_try, web, disk, log>>

---------------------------------------------------------------------------
(* _pop_item and the end of the run *)

\* _pop_item, lines 519-522: the checkpoint is due
CheckpointDue(done) == Len(done) % writing_steps = 0

\* line 178 with _pop_item: the link is marked done; every writing_steps-th time
\* the knowledge base is written to _overview/knowledge_base.pkl
PopItem ==
    /\ pc = "pop"
    /\ LET done == Append(done_links, current_url)
       IN  /\ done_links' = done
           /\ todo_links' \in Enumerations(PopTodo(todo_links, done))
           /\ link_dict' = ListOf(ToSet(link_dict))
           /\ IF CheckpointDue(done)
              THEN IF "_overview" \in dirs
                   THEN /\ disk_kb' = Pickle(knowledge_base)
                        /\ pc' = "loop"
                   ELSE /\ pc' = "raised"
                        /\ UNCHANGED disk_kb
              ELSE /\ pc' = "loop"
                   /\ UNCHANGED disk_kb
    /\ UNCHANGED <<has_todo_links, knowledge_base, legalfile_iterator, config, fedlex,
                   sessions, site, current_url, current_try, locals, web, dirs, files,
                   disk_scraper, log, faults>>

\* crawly_go_crawl, lines 25-26: the scraper is pickled after crawl_page returned
SaveScraper ==
    /\ pc = "returned"
    /\ IF "_overview" \in dirs
       THEN /\ disk_scraper' = Pickle([knowledge_base |-> knowledge_base,
                                       link_dict |-> link_dict,
                                       todo_links |-> todo_links,
                                       done_links |-> done_links,
                                       legalfile_iterator |-> legalfile_iterator])
            /\ pc' = "exit"
       ELSE /\ pc' = "raised"
            /\ UNCHANGED disk_scraper
    /\ UNCHANGED <<frontier, knowledge_base, legalfile_iterator, config, fedlex,
                   sessions, site, current_url, current_try, locals, web, dirs, files,
                   disk_kb, log, faults>>

Next ==
    \/ CrawlStart
    \/ LoopNoAttribute
    \/ LoopExit
    \/ LoopNext
    \/ Except
    \/ FetchFails
    \/ FetchOk
    \/ ProcessHtmlPlain
    \/ EscalateRenderRaises
    \/ EscalateFetchRaises
    \/ EscalateOk
    \/ StoreOk
    \/ StoreWriteFails
    \/ PopItem
    \/ SaveScraper

Spec == Init /\ [][Next]_vars

\* the program is sequential: whenever a step is possible, one is taken
FairSpec == Spec /\ WF_vars(Next)

---------------------------------------------------------------------------
(* _get_filenames on its own: the classifier applied to one address *)

ClassifyDirs ==
    { <<"/">>, <<"/", "astra", "/", "de", "/">>, domain_url \o <<"/">>,
      domain_url \o <<"/", "v1", ".", "2", "/">> }

ClassifyNames == {"doc", "report", "file", "a%20b", "docs"}

ClassifyExts ==
    {"PDF", "pdf", "HTML", "html", "html?x", "xlsx?v=2", "xlsx", "xls", "docx", "doc",
     "legal_xml", "xml", "zip", "mpg", "unknownext"}

\* addresses with an extension, with two, with none, and with an empty last segment
ClassifyUrls ==
    {d \o <<n, ".", x>> : d \in ClassifyDirs, n \in ClassifyNames, x \in ClassifyExts}
    \cup {d \o <<n, ".", "tar", ".", "zip">> : d \in ClassifyDirs, n \in ClassifyNames}
    \cup {d \o <<n>> : d \in ClassifyDirs, n \in ClassifyNames}
    \cup ClassifyDirs

ClassifyInit ==
    /\ url \in ClassifyUrls
    /\ pc = "classify"
    /\ link_dict = <<>>
    /\ todo_links = <<>>
    /\ has_todo_links = FALSE
    /\ done_links = <<>>
    /\ predefined_done = 0
    /\ knowledge_base = <<>>
    /\ legalfile_iterator = 0
    /\ retries = 1
    /\ write = FALSE
    /\ filter_function = "None"
    /\ site = "none"
    /\ current_url = <<>>
    /\ current_try = 0
    /\ page = NoPage
    /\ file_type = "none"
    /\ file_name = <<>>
    /\ linked_docs = PyList(<<>>)
    /\ legal_status = "none"
    /\ as_pickle = FALSE
    /\ web = <<>>
    /\ dirs = {}
    /\ files = <<>>
    /\ disk_kb = NoFile
    /\ disk_scraper = NoFile
    /\ log = <<>>
    /\ faults = 0
    /\ sessions = 0
    /\ full_set = <<>>
    /\ crawled_legal_knowledge = <<>>
    /\ id_counter = 0
    /\ reset_counter = 0
    /\ entry_index = 0

\* _get_filenames(url): returns the pair, or raises TypeError
Classify ==
    /\ pc = "classify"
    /\ IF GetFilenamesRaises(url)
       THEN /\ pc' = "raised"
            /\ UNCHANGED <<file_type, file_name>>
       ELSE /\ file_type' = GetFilenames(url)[1]
            /\ file_name' = GetFilenames(url)[2]
            /\ pc' = "classified"
    /\ UNCHANGED <<frontier, knowledge_base, legalfile_iterator, config, fedlex,
                   sessions, site, current_url, current_try, url, page, linked_docs,
                   legal_status, as_pickle, web, disk, log, faults>>

ClassifyNext == Classify

ClassifySpec == ClassifyInit /\ [][ClassifyNext]_vars

---------------------------------------------------------------------------
(* _verify_filestructure on its own: the check applied twice to a directory *)

\* what an existing write_dir may hold: any of the layout, and a foreign entry
DirEntries == Buckets \cup {"_overview", "notes"}

VerifyInit ==
    /\ dirs \in SUBSET DirEntries
    /\ pc = "verify"
    /\ write = TRUE
    /\ url = <<>>
    /\ link_dict = <<>>
    /\ todo_links = <<>>
    /\ has_todo_links = FALSE
    /\ done_links = <<>>
    /\ predefined_done = 0
    /\ knowledge_base = <<>>
    /\ legalfile_iterator = 0
    /\ retries = 1
    /\ filter_function = "None"
    /\ site = "none"
    /\ current_url = <<>>
    /\ current_try = 0
    /\ page = NoPage
    /\ file_type = "none"
    /\ file_name = <<>>
    /\ linked_docs = PyList(<<>>)
    /\ legal_status = "none"
    /\ as_pickle = FALSE
    /\ web = <<>>
    /\ files = <<>>
    /\ disk_kb = NoFile
    /\ disk_scraper = NoFile
    /\ log = <<>>
    /\ faults = 0
    /\ sessions = 0
    /\ full_set = <<>>
    /\ crawled_legal_knowledge = <<>>
    /\ id_counter = 0
    /\ reset_counter = 0
    /\ entry_index = 0

\* crawl_page, lines 144-145: self._verify_filestructure(write_dir), a first and
\* a second time
Verify ==
    /\ pc \in {"verify", "verified"}
    /\ dirs' = VerifyFilestructure(dirs)
    /\ pc' = IF pc = "verify" THEN "verified" ELSE "verified_again"
    /\ UNCHANGED <<frontier, knowledge_base, legalfile_iterator, config, fedlex,
                   sessions, site, current_url, current_try, locals, web, files,
                   disk_kb, disk_scraper, log, faults>>

VerifyNext == Verify

VerifySpec == VerifyInit /\ [][VerifyNext]_vars

---------------------------------------------------------------------------
(* FedlexScraper._scrap_feldex on its own *)

\* the longest catalog and the largest reset_counter that are tried
MaxCatalog == 3
MaxReset == 2

\* entries of the catalog as fetch_full_fedlex returns them
SrUris ==
    { <<"https:", "/", "/", "fedlex", ".", "data", ".", "admin", ".", "ch", "/", "eli",
        "/", "cc", "/", n>> : n \in {"1", "2"} }
Catalogs ==
    UNION { [1..n -> {[sr_uri |-> u, titel |-> u[Len(u)]] : u \in SrUris}] :
                n \in 0..MaxCatalog }

RECURSIVE SubFedlexHost(_)
\* lines 544-546: re.sub('fedlex.data.admin.ch', 'www.fedlex.admin.ch', web_string)
SubFedlexHost(s) ==
    IF Len(s) < 7 THEN s
    ELSE IF SubSeq(s, 1, 7) = <<"fedlex", ".", "data", ".", "admin", ".", "ch">>
         THEN <<"www", ".", "fedlex", ".", "admin", ".", "ch">>
                  \o SubFedlexHost(SubSeq(s, 8, Len(s)))
         ELSE <<s[1]>> \o SubFedlexHost(Tail(s))

\* lines 543-547: the address given to isolate_legal_xml
WebString(legal_entry) == SubFedlexHost(legal_entry.sr_uri) \o <<"/", "de">>

\* helpers.isolate_legal_xml with date=False, lines 144-151: what it returns
IsolateLegalXml(u, status) == <<NewPage(u, status), status, PyStr(u)>>

\* lines 569 and 573: f'legal_doc_{id_counter}.pkl'
LegalDocKey(n) == <<"legal_doc_" \o ToString(n), ".", "pkl">>

FedlexInit ==
    /\ full_set \in Catalogs
    /\ crawled_legal_knowledge = <<>>
    /\ id_counter = 0
    /\ reset_counter \in 0..MaxReset
    /\ entry_index = 0
    /\ pc = "scrap"
    /\ sessions = 0
    /\ link_dict = <<>>
    /\ todo_links = <<>>
    /\ has_todo_links = FALSE
    /\ done_links = <<>>
    /\ predefined_done = 0
    /\ knowledge_base = <<>>
    /\ legalfile_iterator = 0
    /\ retries = 1
    /\ write = FALSE
    /\ filter_function = "None"
    /\ site = "none"
    /\ current_url = <<>>
    /\ current_try = 0
    /\ url = <<>>
    /\ page = NoPage
    /\ file_type = "none"
    /\ file_name = <<>>
    /\ linked_docs = PyList(<<>>)
    /\ legal_status = "none"
    /\ as_pickle = FALSE
    /\ web = <<>>
    /\ dirs = {}
    /\ files = <<>>
    /\ disk_kb = NoFile
    /\ disk_scraper = NoFile
    /\ log = <<>>
    /\ faults = 0

\* what _scrap_feldex leaves alone
FedlexFrame ==
    UNCHANGED <<frontier, knowledge_base, legalfile_iterator, config, site, current_url,
                current_try, locals, web, disk, log, faults, full_set, reset_counter>>

\* lines 536-541: the entry is passed over and counted
ScrapSkip ==
    /\ pc = "scrap"
    /\ entry_index < Len(full_set)
    /\ id_counter <= reset_counter
    /\ id_counter' = id_counter + 1
    /\ entry_index' = entry_index + 1
    /\ UNCHANGED <<pc, sessions, crawled_legal_knowledge>>
    /\ FedlexFrame

\* line 549: isolate_legal_xml raises, before or after the session was opened
ScrapResolveRaises ==
    /\ pc = "scrap"
    /\ entry_index < Len(full_set)
    /\ id_counter > reset_counter
    /\ entry_index' = entry_index + 1
    /\ \E opened \in BOOLEAN : sessions' = IF opened THEN sessions + 1 ELSE sessions
    /\ pc' = "raised"
    /\ UNCHANGED <<id_counter, crawled_legal_knowledge>>
    /\ FedlexFrame

\* lines 542-575: isolate_legal_xml returns; its result is unpacked into the two
\* names xml_url and in_force_status (ValueError unless it has two items); the
\* document is fetched and the entry is stored under the key of id_counter
ScrapEntry ==
    /\ pc = "scrap"
    /\ entry_index < Len(full_set)
    /\ id_counter > reset_counter
    /\ entry_index' = entry_index + 1
    /\ \E st \in LegalStatus :
          LET legal_entry == full_set[entry_index + 1]
              result == IsolateLegalXml(WebString(legal_entry), st)
          IN  /\ sessions' = SessionsAfter(st)
              /\ IF Len(result) = 2
                 THEN /\ \E citing, cited \in {<<>>, <<legal_entry.sr_uri>>} :
                            crawled_legal_knowledge' =
                                (LegalDocKey(id_counter) :>
                                    [sr_uri |-> legal_entry.sr_uri,
                                     titel |-> legal_entry.titel,
                                     citing_article |-> citing,
                                     cited_in_article |-> cited])
                                @@ crawled_legal_knowledge
                      /\ id_counter' = id_counter + 1
                      /\ UNCHANGED pc
                 ELSE /\ pc' = "raised"
                      /\ UNCHANGED <<id_counter, crawled_legal_knowledge>>
    /\ FedlexFrame

\* line 536: the catalog is exhausted, _scrap_feldex returns
ScrapReturn ==
    /\ pc = "scrap"
    /\ entry_index = Len(full_set)
    /\ pc' = "returned"
    /\ UNCHANGED <<sessions, id_counter, entry_index, crawled_legal_knowledge>>
    /\ FedlexFrame

FedlexNext ==
    \/ ScrapSkip
    \/ ScrapResolveRaises
    \/ ScrapEntry
    \/ ScrapReturn

FedlexSpec == FedlexInit /\ [][FedlexNext]_vars

---------------------------------------------------------------------------
(* Properties *)

\* the links marked done by _pop_item during this crawl
Popped == {done_links[i] : i \in (predefined_done + 1)..Len(done_links)}

\* C1: once a link has been marked done by _pop_item, the loop of crawl_page
\* never takes it as current_url again, also when a later page links to it and
\* it passes through _gather_links.
NoReprocessing ==
    [][(pc = "loop" /\ pc' \in {"fetch", "pop"}) => current_url' \notin Popped]_vars

\* C1, witness: a page processed by the loop links to a link that was popped
\* before, _gather_links has run on it, and the link is not pending.
PoppedLinkGatheredAgain ==
    /\ pc = "store"
    /\ site = "try"
    /\ file_type = "html"
    /\ linked_docs.py = "list"
    /\ \E u \in Popped : u \in ToSet(linked_docs.val) /\ u \notin ToSet(todo_links)

\* C2, as claimed: in every state no link is both in todo_links and in done_links.
PendingDoneDisjoint == ToSet(todo_links) \cap ToSet(done_links) = {}

\* C3, as claimed: an entry of the knowledge base is created once per address; no
\* step records an address that has an entry already.
EntryCreatedOnce ==
    [][(pc = "store" /\ pc' # "store") => url \notin DOMAIN knowledge_base]_vars

\* C4, as claimed: whenever the loop of crawl_page ends, by its condition or by
\* an exception leaving crawl_page, todo_links (if it exists) is empty and every
\* discovered link is done.
FrontierExhausted ==
    [][(pc # "returned" /\ site # "initial" /\ pc' \in {"returned", "raised"}) =>
          (has_todo_links' =>
              /\ todo_links' = <<>>
              /\ ToSet(link_dict') \subseteq ToSet(done_links'))]_vars

\* C5, as claimed: with retries = 1 a fetch that fails again on the second
\* attempt does not end the loop; the link is given up and the loop goes on.
SecondFailureSkips ==
    [][(retries = 1 /\ pc = "fetch" /\ site = "retry")
          => pc' \in {"html", "store", "pop"}]_vars

\* C6, as claimed: a failing address is re-attempted only within the budget
\* retries, and its failure is final only after retries + 1 failed attempts; at
\* the except clause one attempt has failed, at the call sites "initial" and
\* "retry" the first and the second attempt are running.
RetryBudgetHonoured ==
    [][/\ (pc = "except" /\ pc' = "fetch") => 1 <= retries
       /\ (pc = "except" /\ pc' = "pop") => 1 = retries + 1
       /\ (site = "retry" /\ pc' = "raised") => 2 = retries + 1
       /\ (site = "initial" /\ pc' = "raised") => 1 = retries + 1]_vars

\* C7, as claimed: when the failure of the second attempt leaves a writing
\* crawl, the entry of every link completed so far is in the knowledge-base
\* file.
AbortKeepsCompleted ==
    [][(write /\ site = "retry" /\ pc' = "raised") =>
          \A u \in Popped :
              PullUrl(u) \in DOMAIN knowledge_base =>
                  disk_kb'.present /\ PullUrl(u) \in DOMAIN disk_kb'.content]_vars

\* C8, as claimed: when the guarded resolution of a gated page has raised
\* (legal_status is 'else'), the entry recorded for the page has kind 'else' and
\* an empty list of links, and the failure is in the log.
EscalationFailureDegrades ==
    [][(pc = "store" /\ legal_status = "else") =>
          LET e == knowledge_base'[url]
          IN  /\ e.storage_location = WritePath("else", file_name)
              /\ e.neighbour_list.py = "list"
              /\ e.neighbour_list.val = <<>>
              /\ url \in ToSet(log)]_vars

\* C9, as claimed: the entry recorded for a gated page whose status is
\* not_in_force has kind 'else' and an empty list of links.
NotInForceEntryEmpty ==
    [][(pc = "store" /\ legal_status = "not_in_force") =>
          LET e == knowledge_base'[url]
          IN  /\ e.storage_location = WritePath("else", file_name)
              /\ e.neighbour_list.py = "list"
              /\ e.neighbour_list.val = <<>>]_vars

\* C10, as claimed: scenario A (nothing predefined as done, the internal-links
\* filter, no failure, a start page holding two internal links and an external
\* one, an internal page holding no links) ends with the seed and the two
\* internal links discovered and done, and the external link nowhere in the
\* frontier.
ScenarioAFrontier ==
    ( /\ pc = "returned"
      /\ filter_function = "string_filter"
      /\ predefined_done = 0
      /\ faults = 0
      /\ initial_url \in DOMAIN web
      /\ web[initial_url].hrefs = <<PageA, DocPdf, External>>
      /\ (PullUrl(PageA) \in DOMAIN web => web[PullUrl(PageA)].hrefs = <<>>) )
    =>
        /\ ToSet(link_dict) = {initial_url, PageA, DocPdf}
        /\ ToSet(done_links) = {initial_url, PageA, DocPdf}
        /\ External \notin ToSet(link_dict) \cup ToSet(todo_links) \cup ToSet(done_links)

\* C11, as claimed: in every state every link of todo_links and every link of
\* done_links is in link_dict.
PendingDoneDiscovered ==
    ToSet(todo_links) \cup ToSet(done_links) \subseteq ToSet(link_dict)

EnqueueAddsExactlyNew ==
    [][(pc = "html" /\ ~page.gated) =>
          LET new == ToSet(linked_docs'.val) \ ToSet(link_dict)
          IN  /\ ToSet(link_dict') = ToSet(link_dict) \cup new
              /\ ToSet(todo_links') = ToSet(todo_links) \cup new
              /\ done_links' = done_links]_vars

\* C14, as claimed: _pop_item of a link that is in done_links already leaves
\* done_links (and its length) as it is, takes at most that link out of
\* todo_links and leaves the links of link_dict as they are.
CompleteIdempotent ==
    [][(pc = "pop" /\ current_url \in ToSet(done_links)) =>
          /\ done_links' = done_links
          /\ ToSet(todo_links') = ToSet(todo_links) \ {current_url}
          /\ ToSet(link_dict') = ToSet(link_dict)]_vars

\* C15, as claimed: _pop_item writes the knowledge base to its file each time
\* the length of done_links reaches a multiple of writing_steps, and when
\* crawl_page has returned the knowledge base is written once more (within the
\* pickled scraper).
CheckpointCadence ==
    [][/\ (pc = "pop" /\ CheckpointDue(done_links')) =>
              disk_kb' = Pickle(knowledge_base')
       /\ (pc = "returned") =>
              /\ disk_scraper'.present
              /\ disk_scraper'.content.knowledge_base = knowledge_base]_vars

\* C16, as claimed: a call of _process_page that raises leaves the knowledge
\* base as it was.
EntryOnlyOnSuccess ==
    [][(site \in {"initial", "try", "retry"} /\ pc' \in {"except", "raised"}) =>
          knowledge_base' = knowledge_base]_vars

\* C17, as claimed: for every address _get_filenames returns the kind computed
\* from the lower-cased text after the last "." of the decoded last segment: the
\* text itself if it is a key of the table, else the first key of the table
\* contained in it, else 'else'; doc.PDF is pdf, file.unknownext is else,
\* report.xlsx?v=2 is xlsx.
ClassifyByExtension ==
    pc # "classify" =>
        /\ pc = "classified"
        /\ LET seg  == SuffixWithout(Unquote(url), "/")
               ext  == Lower(SuffixWithout(seg, "."))[1]
               keys == {i \in DOMAIN fedro_filetypes : TokenHolds(ext, fedro_filetypes[i])}
           IN  /\ file_type =
                      IF ext \in ToSet(fedro_filetypes) THEN ext
                      ELSE IF keys = {} THEN "else"
                      ELSE fedro_filetypes[CHOOSE i \in keys : \A j \in keys : i <= j]
               /\ seg = <<"doc", ".", "PDF">> => file_type = "pdf"
               /\ seg = <<"file", ".", "unknownext">> => file_type = "else"
               /\ seg = <<"report", ".", "xlsx?v=2">> => file_type = "xlsx"

\* C18, as claimed: once the response has arrived, _process_page goes on with a
\* kind that has a bucket in fedro_filesplit; the classification raises nothing
\* into crawl_page.
ClassifyNeverRaises ==
    [][(pc = "fetch" /\ faults' = faults) =>
          /\ pc' \in {"html", "store"}
          /\ file_type' \in DOMAIN fedro_filesplit]_vars

\* C19: the list isolate_simple returns holds the hrefs of the page in document
\* order, an href as often as the page holds it, and with a filter exactly the
\* hrefs the filter accepts; the n-th returned href is the n-th accepted one.
ExtractLinksInOrder ==
    [][(pc = "html" /\ ~page.gated) =>
          LET hrefs == page.hrefs
              kept  == IF filter_function = "None" THEN DOMAIN hrefs
                       ELSE {i \in DOMAIN hrefs :
                               \E k \in DOMAIN filter_string :
                                   IsSubstr(filter_string[k], hrefs[i])}
              r     == linked_docs'.val
          IN  /\ linked_docs'.py = "list"
              /\ Len(r) = Cardinality(kept)
              /\ \A n \in DOMAIN r :
                    r[n] = hrefs[CHOOSE i \in kept :
                                    Cardinality({j \in kept : j <= i}) = n]]_vars

\* C19, witness: with the filter, a page holding an external link has been
\* processed and the links of a page holding an address twice are returned.
FilteredAndDuplicateLinks ==
    /\ pc = "store"
    /\ file_type = "html"
    /\ filter_function = "string_filter"
    /\ linked_docs = PyList(<<HomeRel, LawPage, LawPage>>)
    /\ initial_url \in DOMAIN web
    /\ web[initial_url].hrefs = <<PageA, DocPdf, External>>

\* C20, as claimed: every link marked done during this crawl has an entry in the
\* knowledge base (under the address it is fetched from).
DoneHasEntry == \A u \in Popped : PullUrl(u) \in DOMAIN knowledge_base

\* C20, amended: a link reaches _pop_item after _process_page has returned and
\* recorded its entry, or unprocessed because it holds no whitelist text, or
\* after a failure that the except clause let pass (retries >= 2); so every
\* link marked done during this crawl has an entry unless it is not
\* whitelisted or retries >= 2.
DoneHasEntryUnlessSkipped ==
    [][/\ pc' = "pop" =>
              \/ pc = "store" /\ url \in DOMAIN knowledge_base'
              \/ pc = "loop" /\ ~VerifyLinkparent(current_url')
              \/ pc = "except" /\ current_try' < retries /\ retries >= 2
       /\ \A u \in Popped' :
              \/ PullUrl(u) \in DOMAIN knowledge_base'
              \/ ~VerifyLinkparent(u)
              \/ retries >= 2]_vars

\* C20, witness: a link without whitelist text is done without an entry, and a
\* processed link is done with its entry.
SkippedAndRecordedDone ==
    /\ retries < 2
    /\ External \in Popped
    /\ PullUrl(External) \notin DOMAIN knowledge_base
    /\ \E u \in Popped : PullUrl(u) \in DOMAIN knowledge_base

\* C21: a link is dequeued only at the loop head and only when the link
\* dequeued before it is done; link_dict changes only in the extraction step,
\* which is followed by the recording step; the knowledge base changes only in
\* the recording step, for a markup page after its links are in link_dict; the
\* recording step records the entry and marks nothing done; done_links changes
\* only in _pop_item, which leads back to the loop head.
PipelineOrder ==
    [][/\ (current_url' # current_url \/ (pc = "loop" /\ pc' \in {"fetch", "pop"})) =>
              /\ pc = "loop"
              /\ current_url = <<>> \/ current_url \in ToSet(done_links)
       /\ ToSet(link_dict') # ToSet(link_dict) => (pc = "html" /\ pc' = "store")
       /\ knowledge_base' # knowledge_base =>
              /\ pc = "store"
              /\ file_type = "html" =>
                     /\ linked_docs.py = "list"
                     /\ ToSet(linked_docs.val) \subseteq ToSet(link_dict)
       /\ pc = "store" => (url \in DOMAIN knowledge_base' /\ done_links' = done_links)
       /\ done_links' # done_links => (pc = "pop" /\ pc' \in {"loop", "raised"})]_vars

\* C21, witness: the loop is back at its head after a markup page with links
\* went through extraction, recording and _pop_item.
MarkupPageWentThrough ==
    /\ pc = "loop"
    /\ predefined_done = 0
    /\ current_url = PageA
    /\ PageA \in ToSet(done_links)
    /\ PullUrl(PageA) \in DOMAIN knowledge_base
    /\ knowledge_base[PullUrl(PageA)].neighbour_list = PyList(<<HomeRel, LawPage, LawPage>>)
    /\ LawPage \in ToSet(todo_links)

\* C22: fetching and classifying, the resolution of a gated page and the
\* recording step leave link_dict, todo_links and done_links as they are, and
\* the entry recorded for a resource that is not markup has an empty list of
\* links.
NoExtractionUnlessPlainMarkup ==
    [][/\ pc = "fetch" => frontier' = frontier
       /\ (pc = "html" /\ page.gated) => frontier' = frontier
       /\ pc = "store" => frontier' = frontier
       /\ (pc = "store" /\ file_type # "html" /\ legal_status = "none") =>
              knowledge_base'[url].neighbour_list = PyList(<<>>)]_vars

\* C22, witness: a document and a gated page have been processed and marked
\* done.
DocumentAndGatedDone ==
    /\ DocPdf \in Popped
    /\ PullUrl(DocPdf) \in DOMAIN knowledge_base
    /\ LawPage \in Popped
    /\ LawPage \in DOMAIN knowledge_base
    /\ web[LawPage].gated

\* C23, as claimed: no address of predefined_done_links is fetched during the
\* crawl.
ResumeSkipsDone ==
    [][(pc # "fetch" /\ pc' = "fetch") =>
          \A i \in 1..predefined_done : PullUrl(done_links[i]) # url']_vars

FrontierOnlyGrows ==
    [][/\ ToSet(link_dict) \subseteq ToSet(link_dict')
       /\ ToSet(done_links) \subseteq ToSet(done_links')]_vars

\* C25, witness: links were gathered into a non-empty link_dict and links were
\* marked done.
GatheredAndDone ==
    /\ pc = "loop"
    /\ {initial_url, HomeRel, LawPage} \subseteq ToSet(link_dict)
    /\ {initial_url, HomeRel} \subseteq ToSet(done_links)

\* C26: _verify_filestructure leaves write_dir with one directory per bucket of
\* fedro_filesplit and with _overview, whatever it held before, takes no
\* directory away, and a second call changes nothing.
LayoutCompleted ==
    [][/\ \A t \in DOMAIN fedro_filesplit : fedro_filesplit[t] \in dirs'
       /\ "_overview" \in dirs'
       /\ dirs \subseteq dirs'
       /\ pc = "verified" => dirs' = dirs]_vars

\* C26, witness: the check ran twice on a directory that holds an entry of its
\* own besides the layout.
LayoutCheckedTwice ==
    /\ pc = "verified_again"
    /\ "notes" \in dirs
    /\ "_overview" \in dirs
    /\ \A t \in DOMAIN fedro_filesplit : fedro_filesplit[t] \in dirs

\* C27: the loop fetches a link only when it holds a whitelist text; a link
\* without one goes from the loop head to _pop_item with the knowledge base
\* untouched and never has an entry; _pop_item appends the current link to
\* done_links in either case and the checkpoint is written exactly when the
\* length of done_links is then a multiple of writing_steps.
WhitelistGate ==
    [][/\ (pc = "loop" /\ pc' = "fetch") =>
              /\ \E i \in DOMAIN whitelist : IsSubstr(whitelist[i], current_url')
              /\ url' = PullUrl(current_url')
       /\ (pc = "loop" /\ pc' # "fetch") => knowledge_base' = knowledge_base
       /\ (pc = "loop" /\ has_todo_links /\ Len(todo_links) > 0
              /\ \A i \in DOMAIN whitelist : ~IsSubstr(whitelist[i], todo_links[1])) =>
              (pc' = "pop" /\ current_url' = todo_links[1])
       /\ \A u \in Popped' :
              (\A i \in DOMAIN whitelist : ~IsSubstr(whitelist[i], u)) =>
                  PullUrl(u) \notin DOMAIN knowledge_base'
       /\ pc = "pop" =>
              /\ done_links' = Append(done_links, current_url)
              /\ (Len(done_links') % writing_steps = 0 /\ "_overview" \in dirs) =>
                     disk_kb' = Pickle(knowledge_base)
              /\ Len(done_links') % writing_steps # 0 => disk_kb' = disk_kb]_vars

\* C27, witness: a link without whitelist text was marked done as the 400th
\* link, the checkpoint was written, and the link has no entry.
SkippedLinkCounted ==
    /\ pc = "loop"
    /\ Len(done_links) = writing_steps
    /\ predefined_done = writing_steps - 1
    /\ done_links[writing_steps] = External
    /\ disk_kb.present
    /\ PullUrl(External) \notin DOMAIN knowledge_base

\* C28, as claimed: without predefined links, whatever the start page is, the
\* attribute todo_links exists when the loop condition is first evaluated, and
\* with no fetch failing crawl_page does not raise.
PendingDefinedAtLoop ==
    [][(pc = "store" /\ site = "initial" /\ Len(link_dict) = 0 /\ faults = 0
           /\ legal_status \in {"in_force", "not_in_force", "unknown"}
           /\ pc' = "loop") => has_todo_links']_vars

\* C29, as claimed: when _store_object has written a resource, the file at the
\* storage_location of the entry is the one that was written.
StorageLocationWritten ==
    [][(pc = "store" /\ write /\ pc' \in {"loop", "pop"}) =>
          /\ knowledge_base'[url].storage_location \in DOMAIN files'
          /\ files'[knowledge_base'[url].storage_location] =
                 knowledge_base'[url].file_hash]_vars

\* C30, as claimed: the entries of two different addresses never have the same
\* storage_location, and no file written for one address is written over for
\* another.
StorageLocationsDistinct ==
    [][(pc = "store" /\ write /\ pc' \in {"loop", "pop"}) =>
          /\ \A v \in DOMAIN knowledge_base \ {url} :
                 knowledge_base[v].storage_location #
                     knowledge_base'[url].storage_location
          /\ \A p \in DOMAIN files : files'[p] = files[p]]_vars

\* C31, as claimed: whenever crawl_page is between two links (at the loop head
\* or in _pop_item), every browser session that isolate_legal_xml opened has
\* been closed; stated here for the runs in which no resolution failed.
SessionsClosedBetweenUrls ==
    (pc \in {"loop", "pop"} /\ log = <<>>) => sessions = 0

\* C32, as claimed: when _scrap_feldex has returned, the entries stored are
\* exactly those at the positions from reset_counter on (all of them for the
\* default 0), the entry at position i under the key of i.
ScrapProcessesFromReset ==
    pc = "returned" =>
        \A i \in 0..(Len(full_set) - 1) :
            /\ i >= reset_counter <=>
                   <<"legal_doc_" \o ToString(i), ".", "pkl">>
                       \in DOMAIN crawled_legal_knowledge
            /\ i >= reset_counter =>
                   crawled_legal_knowledge[<<"legal_doc_" \o ToString(i), ".", "pkl">>].sr_uri
                       = full_set[i + 1].sr_uri

====
